---- MODULE Spec2Model ----
(***************************************************************************)
(* Static file server of src/unnamed/part_000: an http.createServer        *)
(* request handler that joins the request URL onto __dirname, looks the    *)
(* extension up in a MIME table, issues one asynchronous fs.readFile and   *)
(* answers from the read's callback.                                       *)
(*                                                                         *)
(* JavaScript strings that the code takes apart (URLs, paths, extensions)  *)
(* are sequences of one-character strings; file contents and fixed bodies  *)
(* are opaque strings.                                                     *)
(***************************************************************************)
EXTENDS Integers, Sequences, FiniteSets, TLC

(* ---------------------------------------------------------------- bounds *)

\* Number of requests the server receives in one run.
MaxRequests == 2

Requests == 1..MaxRequests

(* ------------------------------------------------------- string helpers *)

Upper == <<"A","B","C","D","E","F","G","H","I","J","K","L","M",
           "N","O","P","Q","R","S","T","U","V","W","X","Y","Z">>
Lower == <<"a","b","c","d","e","f","g","h","i","j","k","l","m",
           "n","o","p","q","r","s","t","u","v","w","x","y","z">>

\* String.prototype.toLowerCase, character by character.
toLowerCase(s) ==
    [i \in 1..Len(s) |->
        IF \E k \in 1..Len(Upper) : Upper[k] = s[i]
        THEN Lower[CHOOSE k \in 1..Len(Upper) : Upper[k] = s[i]]
        ELSE s[i]]

\* The pieces of s between "/" separators (empty pieces included).
RECURSIVE SplitAcc(_, _, _)
SplitAcc(s, cur, acc) ==
    IF s = <<>> THEN Append(acc, cur)
    ELSE IF Head(s) = "/" THEN SplitAcc(Tail(s), <<>>, Append(acc, cur))
    ELSE SplitAcc(Tail(s), Append(cur, Head(s)), acc)

Split(s) == SplitAcc(s, <<>>, <<>>)

\* path.normalize on the segments of an absolute path: "" and "." are
\* dropped, ".." removes the segment before it and is dropped at the top.
RECURSIVE NormSegs(_, _)
NormSegs(segs, out) ==
    IF segs = <<>> THEN out
    ELSE LET h == Head(segs) IN
         IF h = <<>> \/ h = <<".">> THEN NormSegs(Tail(segs), out)
         ELSE IF h = <<".", ".">>
              THEN NormSegs(Tail(segs),
                            IF out = <<>> THEN out
                            ELSE SubSeq(out, 1, Len(out) - 1))
              ELSE NormSegs(Tail(segs), Append(out, h))

RECURSIVE JoinSegs(_)
JoinSegs(segs) ==
    IF segs = <<>> THEN <<>>
    ELSE <<"/">> \o Head(segs) \o JoinSegs(Tail(segs))

\* path.normalize of an absolute path string; a trailing "/" is kept.
normalize(p) ==
    LET segs == NormSegs(Split(p), <<>>)
        trailing == Len(p) > 0 /\ p[Len(p)] = "/"
    IN IF segs = <<>> THEN <<"/">>
       ELSE JoinSegs(segs) \o (IF trailing THEN <<"/">> ELSE <<>>)

\* path.join(a, b) for non-empty a and b.
pathJoin(a, b) == normalize(a \o <<"/">> \o b)

\* Index of the last "." of s, 0 when there is none.
LastDot(s) ==
    IF \E i \in 1..Len(s) : s[i] = "."
    THEN CHOOSE i \in 1..Len(s) :
            s[i] = "." /\ \A j \in (i+1)..Len(s) : s[j] # "."
    ELSE 0

\* path.extname: from the last "." of the last path segment to its end;
\* empty when there is no "." or the segment starts with its only ".".
extname(p) ==
    LET segs == SelectSeq(Split(p), LAMBDA x : x # <<>>)
        base == IF segs = <<>> THEN <<>> ELSE segs[Len(segs)]
        d    == LastDot(base)
    IN IF d <= 1 \/ base = <<".", ".">> THEN <<>>
       ELSE SubSeq(base, d, Len(base))

(* ------------------------------------------------------------ the files *)

dirname == <<"/","s","r","v">>

nIndex  == <<"i","n","d","e","x",".","h","t","m","l">>
nSrv    == <<"s","r","v">>
nCss    == <<"a",".","c","s","s">>
nPng    == <<"B",".","P","N","G">>
nDir    == <<"d">>
nLocked == <<"k",".","j","s">>
nSecret == <<"s",".","t","x","t">>

pIndex == <<nSrv, nIndex>>

Absent == [kind |-> "absent", readable |-> FALSE, content |-> ""]
Dir    == [kind |-> "dir", readable |-> TRUE, content |-> ""]
File(c) == [kind |-> "file", readable |-> TRUE, content |-> c]
LockedFile(c) == [kind |-> "file", readable |-> FALSE, content |-> c]

IndexContents == {"<p>hi</p>", "<p>v2</p>"}

\* The directory tree the server starts in: the root directory /srv holds
\* index.html, a.css, B.PNG, the directory d and the unreadable k.js;
\* s.txt lies above the root, outside it.
InitialFs ==
    (<<>>              :> Dir) @@
    (<<nSrv>>          :> Dir) @@
    (pIndex            :> File("<p>hi</p>")) @@
    (<<nSrv, nCss>>    :> File("body{}")) @@
    (<<nSrv, nPng>>    :> File("PNG-bytes")) @@
    (<<nSrv, nDir>>    :> Dir) @@
    (<<nSrv, nLocked>> :> LockedFile("let x")) @@
    (<<nSecret>>       :> File("secret"))

\* The node at the path with segments segs; a path the tree never held is
\* absent.
Lookup(tree, segs) == IF segs \in DOMAIN tree THEN tree[segs] ELSE Absent

\* The (err, content) pair fs.readFile hands to its callback for path p on
\* the directory tree: ENOTDIR when a segment before the last is a regular
\* file (also the last, under a trailing "/"), ENOENT when a segment is
\* missing, EISDIR when the path names a directory, EACCES when the file may
\* not be read, otherwise no error and the file's bytes.
RECURSIVE Walk(_, _, _)
Walk(tree, segs, k) ==
    LET node == Lookup(tree, SubSeq(segs, 1, k)) IN
    IF k < Len(segs)
    THEN IF node.kind = "absent" THEN "ENOENT"
         ELSE IF node.kind = "file" THEN "ENOTDIR"
         ELSE Walk(tree, segs, k + 1)
    ELSE IF node.kind = "absent" THEN "ENOENT"
         ELSE IF node.kind = "dir" THEN "EISDIR"
         ELSE IF ~node.readable THEN "EACCES"
         ELSE "null"

readSegs(tree, segs, trailing) ==
    LET code == Walk(tree, segs, 0) IN
    IF code = "null"
    THEN IF trailing THEN [err |-> "ENOTDIR", content |-> ""]
         ELSE [err |-> "null", content |-> Lookup(tree, segs).content]
    ELSE IF code = "EACCES" /\ trailing THEN [err |-> "ENOTDIR", content |-> ""]
    ELSE [err |-> code, content |-> ""]

\* The segments the kernel walks for the absolute path string p.
SegsOf(p) == NormSegs(Split(p), <<>>)

(* ------------------------------------------------ the request handler *)

\* A JavaScript string literal as the sequence of its characters.
uRoot      == <<"/">>
uIndex     == <<"/">> \o nIndex
uCss       == <<"/">> \o nCss
uPng       == <<"/">> \o nPng
uDir       == <<"/">> \o nDir
uLocked    == <<"/">> \o nLocked
uMissing   == <<"/","m">>
uTraversal == <<"/",".",".","/">> \o nSecret
uThrough   == <<"/">> \o nCss \o <<"/","x">>

\* The request URLs the clients send.
Urls == {uRoot, uIndex, uCss, uPng, uDir, uLocked, uMissing, uTraversal,
         uThrough}

\* filePath without the default document.
filePath_noIndex(url) == pathJoin(dirname, url)

\* const filePath = path.join(__dirname, req.url === '/' ? "index.html" : req.url)
filePath(url) == pathJoin(dirname, IF url = uRoot THEN nIndex ELSE url)

\* extName without the lowercasing.
extName_caseSensitive(fp) == extname(fp)

\* const extName = String(path.extname(filePath)).toLowerCase()
extName(fp) == toLowerCase(extname(fp))

mimeTypes ==
    (<<".","h","t","m","l">> :> "text/html") @@
    (<<".","c","s","s">>     :> "text/css") @@
    (<<".","j","s">>         :> "text/javascript") @@
    (<<".","p","n","g">>     :> "image/png")

\* const contentType = mimeTypes[extName] || 'application/octet-stream'
contentType(ext) ==
    IF ext \in DOMAIN mimeTypes THEN mimeTypes[ext]
    ELSE "application/octet-stream"

(* -------------------------------------------------- the response object *)

\* A fresh http.ServerResponse: nothing written, status defaulting to 200.
\* body is the sequence of the pieces the body text is made of.
NewResponse ==
    [statusCode |-> 200, contentType |-> "none", body |-> <<>>,
     headersSent |-> FALSE, finished |-> FALSE,
     writeHeadCalls |-> 0, endCalls |-> 0, implicitHeader |-> FALSE,
     threw |-> FALSE]

\* res.writeHead(status, {"Content-type": ctype}); "none" for no header.
\* A second writeHead throws ERR_HTTP_HEADERS_SENT; nothing runs after a
\* throw.
writeHead(res, status, ctype) ==
    IF res.threw THEN res
    ELSE IF res.headersSent
    THEN [res EXCEPT !.writeHeadCalls = @ + 1, !.threw = TRUE]
    ELSE [res EXCEPT !.statusCode = status, !.contentType = ctype,
                     !.headersSent = TRUE, !.writeHeadCalls = @ + 1]

\* res.end(body): sends the body and finishes the response, after an
\* implicit header with the current status when none was written; on a
\* finished response it sends nothing more.
end(res, body) ==
    IF res.threw THEN res
    ELSE IF res.finished THEN [res EXCEPT !.endCalls = @ + 1]
    ELSE [res EXCEPT !.body = body, !.headersSent = TRUE,
                     !.implicitHeader = ~res.headersSent,
                     !.finished = TRUE, !.endCalls = @ + 1]

NotFoundBody == <<"<h1>404: File not found</h1>">>

\* The callback with the success branch outside the else: it runs after
\* the error branches too.
readFileCallback_fallThrough(res, err, content, ctype) ==
    LET r1 == IF err # "null"
              THEN IF err = "ENOENT"
                   THEN end(writeHead(res, 404, "text/html"), NotFoundBody)
                   ELSE end(writeHead(res, 500, "none"),
                            <<"Server Error: ", err>>)
              ELSE res
    IN end(writeHead(r1, 200, ctype), <<content>>)

\* The callback answering every error as not found, whatever its code.
readFileCallback_all404(res, err, content, ctype) ==
    IF err # "null"
    THEN end(writeHead(res, 404, "text/html"), NotFoundBody)
    ELSE end(writeHead(res, 200, ctype), <<content>>)

\* The callback rethrowing the errors it does not know.
readFileCallback_rethrow(res, err, content, ctype) ==
    IF err # "null"
    THEN IF err = "ENOENT"
         THEN end(writeHead(res, 404, "text/html"), NotFoundBody)
         ELSE [res EXCEPT !.threw = TRUE]
    ELSE end(writeHead(res, 200, ctype), <<content>>)

\* The callback handed to fs.readFile, lines 22-36.
readFileCallback(res, err, content, ctype) ==
    IF err # "null"
    THEN IF err = "ENOENT"
         THEN end(writeHead(res, 404, "text/html"), NotFoundBody)
         ELSE end(writeHead(res, 500, "none"), <<"Server Error: ", err>>)
    ELSE end(writeHead(res, 200, ctype), <<content>>)

(***************************************************************************)
(* Account system of src/experiment/functionChallenge.js: Account,         *)
(* UserAccount, AdminAccount, AccountStore and AccountService.  Passwords  *)
(* and emails are sequences of one-character strings; amounts and balances *)
(* are integers.                                                           *)
(***************************************************************************)

(* ------------------------------------------------------ numbers, hashing *)

\* A JavaScript integer-valued number n as the pair <<hi, lo>> with
\* n = hi * 65536 + lo and 0 <= lo < 65536.
Limb == 65536
HalfLimb == 32768

Norm(hi, lo) == <<hi + (lo \div Limb), lo % Limb>>

\* ToInt32: the value modulo 2^32, taken in -2^31 .. 2^31 - 1.
ToInt32(n) == <<((n[1] + HalfLimb) % Limb) - HalfLimb, n[2]>>

\* n << 5.
ShiftLeft5(n) ==
    LET m == ToInt32(n) IN ToInt32(Norm(m[1] * 32, m[2] * 32))

Minus(a, b) == Norm(a[1] - b[1], a[2] - b[2])

\* Math.abs.
Abs(n) == IF n[1] < 0 THEN Norm(0 - n[1], 0 - n[2]) ELSE n

\* ch.charCodeAt(0) for the characters of the passwords.
charCodeAt(ch) ==
    IF \E k \in 1..Len(Upper) : Upper[k] = ch
    THEN 64 + (CHOOSE k \in 1..Len(Upper) : Upper[k] = ch)
    ELSE IF \E k \in 1..Len(Lower) : Lower[k] = ch
    THEN 96 + (CHOOSE k \in 1..Len(Lower) : Lower[k] = ch)
    ELSE IF ch = " " THEN 32
    ELSE IF ch = "." THEN 46
    ELSE 64

\* for (let ch of password) hash = (hash << 5) - hash + ch.charCodeAt(0)
RECURSIVE HashLoop(_, _)
HashLoop(hash, password) ==
    IF password = <<>> THEN hash
    ELSE LET d == Minus(ShiftLeft5(hash), hash)
         IN HashLoop(Norm(d[1], d[2] + charCodeAt(Head(password))),
                     Tail(password))

\* UserAccount._mockHash: `h_${Math.abs(hash)}`.
mockHash(password) == <<"h_", Abs(HashLoop(<<0, 0>>, password))>>

(* --------------------------------------------------------------- emails *)

\* String.prototype.trim for the blank " ".
RECURSIVE TrimLeft(_)
TrimLeft(s) ==
    IF s # <<>> /\ Head(s) = " " THEN TrimLeft(Tail(s)) ELSE s

RECURSIVE TrimRight(_)
TrimRight(s) ==
    IF s # <<>> /\ s[Len(s)] = " "
    THEN TrimRight(SubSeq(s, 1, Len(s) - 1)) ELSE s

trim(s) == TrimRight(TrimLeft(s))

\* Utils.isValidEmail: /\S+@\S+\.\S+/.test(email), a match anywhere in
\* the string.
isValidEmail(email) ==
    \E i \in 2..Len(email) :
        /\ email[i] = "@"
        /\ email[i - 1] # " "
        /\ \E k \in (i + 2)..(Len(email) - 1) :
              /\ email[k] = "."
              /\ email[k + 1] # " "
              /\ \A j \in (i + 1)..(k - 1) : email[j] # " "

(* ------------------------------------------------- accounts and store *)

\* The accounts created so far, by id, and the AccountStore's Map as the
\* ids in insertion order.  Utils.generateId is taken to give each account
\* an id of its own: the ids are 1, 2, ...
EmptyBank == [accounts |-> <<>>, store |-> <<>>]

NoHash == <<"", <<0, 0>>>>

\* What a call gave: the bank after it, and either the error it threw or
\* what it returned (kind "number" with the number, "true", "account" with
\* the account's id, "undefined").
Throw(b, message) ==
    [bank |-> b, threw |-> TRUE, error |-> message,
     returned |-> "nothing", number |-> 0]

Return(b, kind, n) ==
    [bank |-> b, threw |-> FALSE, error |-> "",
     returned |-> kind, number |-> n]

\* Account constructor, lines 104-116, for a valid ownerName.
newAccount(kind, id, email, initialDeposit, hash) ==
    [kind |-> kind, id |-> id, email |-> trim(toLowerCase(email)),
     balance |-> initialDeposit, isActive |-> TRUE, passwordHash |-> hash]

\* deposit on an account that does not look at isActive.
deposit_noActiveCheck(b, i, amount) ==
    IF amount <= 0 THEN Throw(b, "deposit amount must be > 0")
    ELSE LET nb == [b EXCEPT !.accounts[i].balance = @ + amount]
         IN Return(nb, "number", nb.accounts[i].balance)

\* Account.deposit, lines 126-132.
deposit(b, i, amount) ==
    IF ~b.accounts[i].isActive THEN Throw(b, "account is not active")
    ELSE IF amount <= 0 THEN Throw(b, "deposit amount must be > 0")
    ELSE LET nb == [b EXCEPT !.accounts[i].balance = @ + amount]
         IN Return(nb, "number", nb.accounts[i].balance)

\* withdraw without the funds check.
withdraw_noFundsCheck(b, i, amount) ==
    IF ~b.accounts[i].isActive THEN Throw(b, "account is not active")
    ELSE IF amount <= 0 THEN Throw(b, "withdraw amount must be > 0")
    ELSE LET nb == [b EXCEPT !.accounts[i].balance = @ - amount]
         IN Return(nb, "number", nb.accounts[i].balance)

\* Account.withdraw, lines 134-141.
withdraw(b, i, amount) ==
    IF ~b.accounts[i].isActive THEN Throw(b, "account is not active")
    ELSE IF amount <= 0 THEN Throw(b, "withdraw amount must be > 0")
    ELSE IF amount > b.accounts[i].balance THEN Throw(b, "insufficient funds")
    ELSE LET nb == [b EXCEPT !.accounts[i].balance = @ - amount]
         IN Return(nb, "number", nb.accounts[i].balance)

\* transferTo that takes the money out and never puts it into the target.
transferTo_withdrawOnly(b, i, j, amount) ==
    IF ~b.accounts[i].isActive THEN Throw(b, "account is not active")
    ELSE IF b.accounts[j].id = b.accounts[i].id
    THEN Throw(b, "cannot transfer to the same account")
    ELSE LET w == withdraw(b, i, amount) IN
         IF w.threw THEN w ELSE Return(w.bank, "true", 0)

\* Account.transferTo, lines 144-153: withdraw from this account, then
\* deposit into the target; an error thrown by either call leaves the bank
\* as that call left it.
transferTo(b, i, j, amount) ==
    IF ~b.accounts[i].isActive THEN Throw(b, "account is not active")
    ELSE IF b.accounts[j].id = b.accounts[i].id
    THEN Throw(b, "cannot transfer to the same account")
    ELSE LET w == withdraw(b, i, amount) IN
         IF w.threw THEN w
         ELSE LET d == deposit(w.bank, j, amount) IN
              IF d.threw THEN d ELSE Return(d.bank, "true", 0)

\* Account.close, lines 155-160.
close(b, i) ==
    IF ~b.accounts[i].isActive THEN Throw(b, "account is not active")
    ELSE IF b.accounts[i].balance # 0
    THEN Throw(b, "balance must be zero to close account")
    ELSE Return([b EXCEPT !.accounts[i].isActive = FALSE], "undefined", 0)

\* AdminAccount.creditAccount, lines 233-241, called on any admin.
creditAccount(b, j, amount) ==
    IF amount <= 0 THEN Throw(b, "amount must be > 0")
    ELSE LET d == deposit(b, j, amount) IN
         IF d.threw THEN d ELSE Return(d.bank, "true", 0)

\* UserAccount.authenticate, lines 203-205.
authenticate(b, i, password) == mockHash(password) = b.accounts[i].passwordHash

\* UserAccount.changePassword, lines 208-214.
changePassword(b, i, oldPwd, newPwd) ==
    IF ~authenticate(b, i, oldPwd) THEN Throw(b, "current password incorrect")
    ELSE IF Len(newPwd) < 6
    THEN Throw(b, "new password must be at least 6 characters")
    ELSE Return([b EXCEPT !.accounts[i].passwordHash = mockHash(newPwd)],
                "true", 0)

\* AccountStore.findByEmail, lines 262-267: the id of the first stored
\* account whose email is the lowercased argument, 0 for null.
findByEmail(b, email) ==
    LET hits == {k \in 1..Len(b.store) :
                    b.accounts[b.store[k]].email = toLowerCase(email)}
    IN IF hits = {} THEN 0
       ELSE b.store[CHOOSE k \in hits : \A m \in hits : k <= m]

\* AccountStore.save, lines 252-256.
save(b, id) ==
    IF \E k \in 1..Len(b.store) : b.store[k] = id THEN b
    ELSE [b EXCEPT !.store = Append(@, id)]

\* AccountService.registerUser, lines 280-286, with the UserAccount and
\* Account constructors, lines 187-192 and 104-116.
registerUser(b, email, password, initialDeposit) ==
    IF findByEmail(b, email) # 0 THEN Throw(b, "email already registered")
    ELSE IF Len(password) < 6 THEN Throw(b, "password (min 6 chars) required")
    ELSE IF ~isValidEmail(email) THEN Throw(b, "valid email is required")
    ELSE IF initialDeposit < 0 THEN Throw(b, "initialDeposit must be >= 0")
    ELSE LET id == Len(b.accounts) + 1
             user == newAccount("user", id, email, initialDeposit,
                                mockHash(password))
         IN Return(save([b EXCEPT !.accounts = Append(@, user)], id),
                   "account", id)

\* new AdminAccount({ownerName, email}) and store.save(admin), lines
\* 228-230 and 317-318.
createAdmin(b, email) ==
    IF ~isValidEmail(email) THEN Throw(b, "valid email is required")
    ELSE LET id == Len(b.accounts) + 1
             admin == newAccount("admin", id, email, 0, NoHash)
         IN Return(save([b EXCEPT !.accounts = Append(@, admin)], id),
                   "account", id)

\* AccountService.login, lines 288-295.
login(b, email, password) ==
    LET id == findByEmail(b, email) IN
    IF id = 0 THEN Throw(b, "no account found for this email")
    ELSE IF b.accounts[id].kind # "user" THEN Throw(b, "account type mismatch")
    ELSE IF ~authenticate(b, id, password) THEN Throw(b, "invalid credentials")
    ELSE Return(b, "account", id)

\* The demo, lines 307-346: the calls of its try block in order, the
\* first one that throws ending the block.
aliceEmail == <<"a","l","i","c","e","@","e","x","a","m","p","l","e",
                ".","c","o","m">>
bobEmail   == <<"b","o","b","@","e","x","a","m","p","l","e",".","c","o","m">>
adminEmail == <<"a","d","m","i","n","@","b","a","n","k",".","c","o","m">>
alicePwd   == <<"a","l","i","c","e","p","w","d">>
bobPwd     == <<"b","o","b","p","w","d">>

demo ==
    LET alice == registerUser(EmptyBank, aliceEmail, alicePwd, 1000)
        bob   == IF alice.threw THEN alice
                 ELSE registerUser(alice.bank, bobEmail, bobPwd, 250)
        admin == IF bob.threw THEN bob ELSE createAdmin(bob.bank, adminEmail)
        op1   == IF admin.threw THEN admin ELSE deposit(admin.bank, 1, 500)
        op2   == IF op1.threw THEN op1 ELSE withdraw(op1.bank, 2, 50)
        op3   == IF op2.threw THEN op2 ELSE transferTo(op2.bank, 1, 2, 200)
    IN IF op3.threw THEN op3 ELSE creditAccount(op3.bank, 2, 1000)

(* ------------------------------------------------------------ the state *)

VARIABLES
    fs,         \* the directory tree on disk
    req,        \* per request: the handler's closure and its response
    listening,  \* the server process is alive and accepting requests
    bank,       \* the accounts created so far and the AccountStore
    last        \* the latest call on the account system and what it gave

serverVars == <<fs, req, listening>>
bankVars == <<bank, last>>
vars == <<fs, req, listening, bank, last>>

\* No call made yet.
NoCall ==
    [op |-> "none", src |-> 0, dst |-> 0, amount |-> 0, email |-> <<>>,
     oldPwd |-> <<>>, newPwd |-> <<>>, threw |-> FALSE, error |-> "",
     returned |-> "nothing", number |-> 0]

Idle ==
    [state |-> "idle", method |-> "none", url |-> <<>>, filePath |-> <<>>,
     contentType |-> "none", connected |-> FALSE, reads |-> 0,
     err |-> "null", content |-> "", res |-> NewResponse]

Init ==
    /\ fs = InitialFs
    /\ req = [r \in Requests |-> Idle]
    /\ listening = TRUE
    /\ bank = EmptyBank
    /\ last = NoCall

\* Reads served one at a time in arrival order, as with readFileSync.
readCompletes_serial(r) ==
    /\ req[r].state = "reading"
    /\ \A q \in Requests : q < r => req[q].state = "closed"

\* The read of request r can complete: fs.readFile is asynchronous, so it
\* waits for nothing but its own file.  (Whether and when the device
\* answers is the environment's choice: a stalled read is one whose
\* ReadDone step never happens.)
readCompletes(r) == req[r].state = "reading"

\* The content type the callback of request r sees: the const of its own
\* handler invocation.
closureContentType(r) == req[r].contentType

\* What the handler computes from each URL before it calls fs.readFile.
Closure ==
    [url \in Urls |->
        LET fp == filePath(url) IN
        [filePath |-> fp, contentType |-> contentType(extName(fp))]]

\* The paths the handler hands to fs.readFile, each with its segments
\* (worked out once: they depend on the path alone).
HandlerPaths == {Closure[url].filePath : url \in Urls}
PathSegs == [p \in HandlerPaths |-> SegsOf(p)]

\* fs.readFile(p, callback): the (err, content) pair the callback gets.
readFile(tree, p) ==
    readSegs(tree,
             IF p \in HandlerPaths THEN PathSegs[p] ELSE SegsOf(p),
             Len(p) > 1 /\ p[Len(p)] = "/")

\* The read answered from an earlier request's result for the same path.
fileRead_cached(r) ==
    LET same == {q \in Requests : /\ req[q].state = "closed"
                                  /\ req[q].filePath = req[r].filePath}
    IN IF same = {} THEN readFile(fs, req[r].filePath)
       ELSE LET q == CHOOSE q \in same : TRUE
            IN [err |-> req[q].err, content |-> req[q].content]

\* The result of the read issued for request r, taken from the disk when
\* the read completes.
fileRead(r) == readFile(fs, req[r].filePath)

\* The request methods the clients send.
Methods == {"GET", "POST", "DELETE"}

\* A handler that routes GET alone and takes every other method for a
\* request of the default document.
handlerClosure_getOnly(method, url) ==
    IF method = "GET" THEN Closure[url] ELSE Closure[uRoot]

\* What the handler computes for a request with this method and URL: it
\* reads req.url and never req.method.
handlerClosure(method, url) == Closure[url]

\* A request arrives: the handler body, lines 10-22, up to the call of
\* fs.readFile.
Request(r, method, url) ==
    /\ listening
    /\ req[r].state = "idle"
    /\ \A q \in Requests : q < r => req[q].state # "idle"
    /\ req' = [req EXCEPT ![r] =
                 [Idle EXCEPT !.state = "reading", !.method = method,
                              !.url = url,
                              !.filePath = handlerClosure(method, url).filePath,
                              !.contentType =
                                  handlerClosure(method, url).contentType,
                              !.connected = TRUE,
                              !.reads = 1]]
    /\ UNCHANGED <<fs, listening, bank, last>>

\* The read of request r completes and its callback runs, lines 22-36.  An
\* exception escaping the callback is uncaught and ends the process.
ReadDone(r) ==
    /\ listening
    /\ readCompletes(r)
    /\ LET got == fileRead(r)
           res == readFileCallback(req[r].res, got.err, got.content,
                                   closureContentType(r))
       IN /\ req' = [req EXCEPT ![r].state = "closed", ![r].err = got.err,
                                ![r].content = got.content, ![r].res = res]
          /\ listening' = ~res.threw
    /\ UNCHANGED <<fs, bank, last>>

\* The client of request r goes away while the read is in progress.  The
\* read is not cancelled; the callback later writes to a dead socket.
Disconnect(r) ==
    /\ listening
    /\ req[r].state = "reading"
    /\ req[r].connected
    /\ req' = [req EXCEPT ![r].connected = FALSE]
    /\ UNCHANGED <<fs, listening, bank, last>>

\* Another process removes index.html from the root.
Unlink ==
    /\ fs[pIndex].kind = "file"
    /\ fs' = [fs EXCEPT ![pIndex] = Absent]
    /\ UNCHANGED <<req, listening, bank, last>>

\* Another process writes index.html.
WriteIndex(c) ==
    /\ fs[pIndex] # File(c)
    /\ fs' = [fs EXCEPT ![pIndex] = File(c)]
    /\ UNCHANGED <<req, listening, bank, last>>

\* The steps of the server and its environment, with the clients' methods
\* and URLs drawn from the sets methods and urls.
NextOn(methods, urls) ==
    \/ \E r \in Requests, method \in methods, url \in urls :
          Request(r, method, url)
    \/ \E r \in Requests : ReadDone(r)
    \/ \E r \in Requests : Disconnect(r)
    \/ Unlink
    \/ \E c \in IndexContents : WriteIndex(c)

Next == NextOn({"GET"}, Urls)

Spec == Init /\ [][Next]_vars

\* The URLs of the files that exist when the server starts.
LiveUrls == {uIndex, uCss, uPng}

LiveNext == NextOn({"GET"}, LiveUrls)

\* Requests for existing files, under the event loop's scheduling: it runs
\* the callback of every read the device answers.  The device may leave the
\* read of the first request unanswered for ever.
LiveSpec ==
    Init /\ [][LiveNext]_vars /\ \A r \in Requests \ {1} : WF_vars(ReadDone(r))

\* URLs answered 200, 404 (index.html removed) and 500.
MethodUrls == {uIndex, uLocked}

MethodNext == NextOn(Methods, MethodUrls)

\* Requests of every method.
MethodSpec == Init /\ [][MethodNext]_vars

(* ------------------------------------------- the account system's steps *)

\* Accounts created in one run.
MaxAccounts == 2

\* Calls that would take a balance above MaxBalance are not made.
MaxBalance == 2

Ids == 1..Len(bank.accounts)

\* The amounts the callers pass: numbers, valid and not.
Amounts == {-1, 0, 1, 2}
InitialDeposits == {-1, 0, 1}

sAt == <<"@","b",".","c">>
eA       == <<"a">> \o sAt
eALead   == <<" ">> \o eA
eATrail  == eA \o <<" ">>
eAUpper  == <<"A">> \o sAt
eX       == <<"x">> \o sAt
eInvalid == <<"a","b">>

\* The emails given to registerUser and login.
Emails == {eA, eALead, eATrail, eAUpper, eX, eInvalid}

\* An email of its own for the n-th account.
OwnEmail(n) == [k \in 1..n |-> "a"] \o sAt

pwAa     == <<"A","a","p","a","s","s">>
pwBB     == <<"B","B","p","a","s","s">>
pwSecret == <<"s","e","c","r","e","t">>
pwShort  == <<"s","h","o","r","t">>

\* The passwords the callers type; pwShort is too short to be valid.
Passwords == {pwAa, pwBB, pwSecret, pwShort}

\* The call is recorded with what it gave, and the bank is as it left it.
Called(call, result) ==
    /\ bank' = result.bank
    /\ last' = [call EXCEPT !.threw = result.threw, !.error = result.error,
                            !.returned = result.returned,
                            !.number = result.number]
    /\ UNCHANGED serverVars

\* Every balance the call leaves is within the model's range.
InRange(result) ==
    \A i \in 1..Len(result.bank.accounts) :
        result.bank.accounts[i].balance <= MaxBalance

\* service.registerUser({ownerName, email, password, initialDeposit}).
RegisterUser(email, password, initialDeposit) ==
    /\ Len(bank.accounts) < MaxAccounts
    /\ Called([NoCall EXCEPT !.op = "registerUser", !.email = email,
                             !.newPwd = password, !.amount = initialDeposit],
              registerUser(bank, email, password, initialDeposit))

\* new AdminAccount({ownerName, email}); store.save(admin): the one admin.
CreateAdmin(email) ==
    /\ Len(bank.accounts) < MaxAccounts
    /\ \A i \in Ids : bank.accounts[i].kind # "admin"
    /\ Called([NoCall EXCEPT !.op = "createAdmin", !.email = email],
              createAdmin(bank, email))

\* account.deposit(amount).
Deposit(i, amount) ==
    LET result == deposit(bank, i, amount) IN
    /\ InRange(result)
    /\ Called([NoCall EXCEPT !.op = "deposit", !.src = i, !.amount = amount],
              result)

\* account.withdraw(amount).
Withdraw(i, amount) ==
    Called([NoCall EXCEPT !.op = "withdraw", !.src = i, !.amount = amount],
           withdraw(bank, i, amount))

\* account.transferTo(targetAccount, amount).
TransferTo(i, j, amount) ==
    LET result == transferTo(bank, i, j, amount) IN
    /\ InRange(result)
    /\ Called([NoCall EXCEPT !.op = "transferTo", !.src = i, !.dst = j,
                             !.amount = amount],
              result)

\* account.close().
Close(i) ==
    Called([NoCall EXCEPT !.op = "close", !.src = i], close(bank, i))

\* admin.creditAccount(targetAccount, amount).
CreditAccount(i, j, amount) ==
    LET result == creditAccount(bank, j, amount) IN
    /\ bank.accounts[i].kind = "admin"
    /\ InRange(result)
    /\ Called([NoCall EXCEPT !.op = "creditAccount", !.src = i, !.dst = j,
                             !.amount = amount],
              result)

\* user.changePassword(oldPwd, newPwd).
ChangePassword(i, oldPwd, newPwd) ==
    /\ bank.accounts[i].kind = "user"
    /\ Called([NoCall EXCEPT !.op = "changePassword", !.src = i,
                             !.oldPwd = oldPwd, !.newPwd = newPwd],
              changePassword(bank, i, oldPwd, newPwd))

\* service.login(email, password).
Login(email, password) ==
    Called([NoCall EXCEPT !.op = "login", !.email = email,
                          !.newPwd = password],
           login(bank, email, password))

\* Accounts with emails of their own, and the calls that move money.
MoneyNext ==
    \/ \E d \in InitialDeposits :
          RegisterUser(OwnEmail(Len(bank.accounts) + 1), pwSecret, d)
    \/ CreateAdmin(OwnEmail(Len(bank.accounts) + 1))
    \/ \E i \in Ids, a \in Amounts : Deposit(i, a)
    \/ \E i \in Ids, a \in Amounts : Withdraw(i, a)
    \/ \E i \in Ids, j \in Ids, a \in Amounts : TransferTo(i, j, a)
    \/ \E i \in Ids : Close(i)
    \/ \E i \in Ids, j \in Ids, a \in Amounts : CreditAccount(i, j, a)

MoneySpec == Init /\ [][MoneyNext]_vars

\* Registration, password changes and logins.
ServiceNext ==
    \/ \E e \in Emails, pw \in Passwords : RegisterUser(e, pw, 0)
    \/ \E i \in Ids, old \in Passwords, new \in Passwords :
          ChangePassword(i, old, new)
    \/ \E e \in Emails, pw \in Passwords : Login(e, pw)

ServiceSpec == Init /\ [][ServiceNext]_vars

(* ------------------------------------------------------------ the claims *)

Reading(r) == req[r].state = "reading"
Closed(r)  == req[r].state = "closed"

\* The step in which the callback of request r runs.
Completes(r) == req[r].state = "reading" /\ req'[r].state = "closed"

\* The node the path string p names in the tree.
NodeAt(tree, p) == Lookup(tree, SegsOf(p))

\* The normalized path p lies in the server's root directory.
UnderRoot(p) ==
    LET segs == SegsOf(p)
        root == SegsOf(dirname)
    IN Len(segs) >= Len(root) /\ SubSeq(segs, 1, Len(root)) = root

\* C1: a request whose URL, joined with the root directory and normalized,
\* lies outside the root is never answered with status 200 and the
\* contents of a file.
C1_TraversalNeverServed ==
    \A r \in Requests :
        Closed(r) /\ ~UnderRoot(pathJoin(dirname, req[r].url))
            => req[r].res.statusCode # 200

\* C2: a request that is still being read has nothing written; a request
\* whose callback ran has exactly one writeHead, with status 200, 404 or
\* 500, and exactly one end, and the body followed an explicit status.
C2_ExactlyOneResponse ==
    \A r \in Requests :
        LET res == req[r].res IN
        /\ ~Closed(r) =>
              /\ res.writeHeadCalls = 0 /\ res.endCalls = 0
              /\ ~res.headersSent /\ res.body = <<>>
        /\ Closed(r) =>
              /\ res.writeHeadCalls = 1 /\ res.endCalls = 1
              /\ res.statusCode \in {200, 404, 500}
              /\ res.finished /\ ~res.implicitHeader /\ ~res.threw

C2_Witness ==
    \E r, q \in Requests :
        /\ Closed(r) /\ req[r].res.statusCode = 404
        /\ Closed(q) /\ req[q].res.statusCode = 500

\* C3: when the callback runs for a path under the root at which no file
\* exists, the response is 404 with Content-Type text/html and the fixed
\* not-found body, whatever error the read reported.
C3_MissingIs404 ==
    [][\A r \in Requests :
          (/\ Completes(r)
           /\ UnderRoot(req[r].filePath)
           /\ NodeAt(fs, req[r].filePath).kind = "absent")
          => /\ req'[r].res.statusCode = 404
             /\ req'[r].res.contentType = "text/html"
             /\ req'[r].res.body = NotFoundBody]_vars

\* C4: a request whose resolved path is a directory is answered with
\* status 404.
C4_DirectoryIs404 ==
    \A r \in Requests :
        Closed(r) /\ NodeAt(fs, req[r].filePath).kind = "dir"
            => req[r].res.statusCode = 404

\* Two characters that differ at most in case.
SameLetter(c, d) ==
    c = d \/ \E k \in 1..Len(Upper) : {c, d} = {Upper[k], Lower[k]}

CaseInsensitiveEq(a, b) ==
    Len(a) = Len(b) /\ \A i \in 1..Len(a) : SameLetter(a[i], b[i])

\* The MIME table entry for the extension of p matched without regard to
\* case, application/octet-stream when there is none.
TableType(p) ==
    LET hits == {k \in DOMAIN mimeTypes : CaseInsensitiveEq(extname(p), k)}
    IN IF hits = {} THEN "application/octet-stream"
       ELSE mimeTypes[CHOOSE k \in hits : TRUE]

ContentTypes ==
    {mimeTypes[k] : k \in DOMAIN mimeTypes} \cup {"application/octet-stream"}

\* The table entry of every path the handler reads.
ExpectedType == [p \in HandlerPaths |-> TableType(p)]

\* The handler's content type for each URL is the table entry of its
\* path, and the entries are the ones the MIME table lists.
LookupAgrees ==
    /\ \A u \in Urls : Closure[u].contentType = ExpectedType[Closure[u].filePath]
    /\ Closure[uIndex].contentType = "text/html"
    /\ Closure[uCss].contentType = "text/css"
    /\ Closure[uLocked].contentType = "text/javascript"
    /\ Closure[uPng].contentType = "image/png"
    /\ Closure[uTraversal].contentType = "application/octet-stream"
    /\ Closure[uDir].contentType = "application/octet-stream"

\* C5: every 200 response carries the MIME table entry of its file's
\* extension matched case-insensitively, application/octet-stream for an
\* extension outside the table or no extension; the lookup yields a content
\* type for every request.
C5_ContentTypeFromTable ==
    /\ \A r \in Requests :
          /\ ~(req[r].state = "idle") => req[r].contentType \in ContentTypes
          /\ Closed(r) /\ req[r].res.statusCode = 200
                => req[r].res.contentType = ExpectedType[req[r].filePath]
    /\ LookupAgrees

C5_Witness ==
    \E r, q \in Requests :
        /\ Closed(r) /\ req[r].url = uPng /\ req[r].res.statusCode = 200
        /\ req[r].res.contentType = "image/png"
        /\ Closed(q) /\ req[q].url = uTraversal /\ req[q].res.statusCode = 200
        /\ req[q].res.contentType = "application/octet-stream"

\* The response a request for url gets when its read sees the tree.
ResponseOn(url, tree) ==
    LET got == readFile(tree, Closure[url].filePath)
    IN readFileCallback(NewResponse, got.err, got.content,
                        Closure[url].contentType)

\* C6: "/" resolves to the file "/index.html" resolves to, the two get the
\* same response on the same directory tree, and that response is 200 with
\* text/html and the bytes of index.html when the file exists.
C6_RootIsIndex ==
    /\ Closure[uRoot].filePath = Closure[uIndex].filePath
    /\ ResponseOn(uRoot, fs) = ResponseOn(uIndex, fs)
    /\ \A r, q \in Requests :
          (/\ Closed(r) /\ req[r].url = uRoot
           /\ Closed(q) /\ req[q].url = uIndex
           /\ req[r].err = req[q].err /\ req[r].content = req[q].content)
          => req[r].res = req[q].res
    /\ \A r \in Requests :
          Closed(r) /\ req[r].url = uRoot /\ req[r].err = "null"
             => /\ req[r].res.statusCode = 200
                /\ req[r].res.contentType = "text/html"
                /\ req[r].res.body = <<req[r].content>>
                /\ req[r].content \in IndexContents

C6_Witness ==
    \E r, q \in Requests :
        /\ Closed(r) /\ req[r].url = uRoot
        /\ Closed(q) /\ req[q].url = uIndex
        /\ req[r].res.statusCode = 200
        /\ req[r].res.body = <<"<p>hi</p>">>
        /\ req[r].res = req[q].res

\* C7: a read that failed with an error other than ENOENT is answered with
\* status 500 and the body "Server Error: " followed by the error code.
C7_OtherErrorIs500 ==
    \A r \in Requests :
        Closed(r) /\ req[r].err \notin {"null", "ENOENT"}
            => /\ req[r].res.statusCode = 500
               /\ req[r].res.body = <<"Server Error: ", req[r].err>>
               /\ req[r].res.writeHeadCalls = 1

C7_Witness ==
    \E r \in Requests :
        /\ Closed(r) /\ req[r].err = "EACCES"
        /\ req[r].res.statusCode = 500
        /\ req[r].res.body = <<"Server Error: ", "EACCES">>

\* The response request r gets when handled alone on the tree.
AloneResponse(r, tree) == ResponseOn(req[r].url, tree)

\* C8: while the read of the first request stays unanswered, every other
\* request being read is eventually answered; and the callback of a
\* request whose file exists and is readable answers 200 with the content
\* type and the bytes of that request's own file.
C8_StalledReadDelaysNoOther ==
    /\ \A b \in Requests \ {1} : Reading(b) ~> Closed(b)
    /\ [][\A r \in Requests :
            LET node == NodeAt(fs, req[r].filePath) IN
            (Completes(r) /\ node.kind = "file" /\ node.readable)
            => /\ req'[r].res.statusCode = 200
               /\ req'[r].res.body = <<node.content>>
               /\ req'[r].res.contentType = ExpectedType[req[r].filePath]]_vars

C8_Witness ==
    /\ MaxRequests >= 2
    /\ Reading(1) /\ req[1].url = uCss
    /\ Closed(2) /\ req[2].url = uPng
    /\ req[2].res.statusCode = 200
    /\ req[2].res.contentType = "image/png"
    /\ req[2].res.body = <<"PNG-bytes">>

\* C9: the server keeps listening through every read error and client
\* disconnect: a step changes at most one request, leaves the others as
\* they were, and the callback of a request writes the response the
\* request gets when handled alone.
C9_FailuresStayLocal ==
    /\ [](listening /\ \A r \in Requests : ~req[r].res.threw)
    /\ [][\A r \in Requests :
            /\ req'[r] # req[r] => \A q \in Requests \ {r} : req'[q] = req[q]
            /\ Completes(r) => req'[r].res = AloneResponse(r, fs)]_vars

C9_Witness ==
    \E r, q \in Requests :
        /\ listening
        /\ Closed(r) /\ req[r].err = "EISDIR" /\ ~req[r].connected
        /\ Closed(q) /\ req[q].res.statusCode = 200

\* C10: a request issues one read and no more; once its callback ran it
\* never changes again; and the callback gets the result of reading the
\* directory tree as it is when the read completes, not an earlier result.
C10_OneReadNoCache ==
    /\ [](\A r \in Requests :
            /\ req[r].reads <= 1
            /\ ~(req[r].state = "idle") => req[r].reads = 1)
    /\ [][\A r \in Requests :
            /\ Closed(r) => req'[r] = req[r]
            /\ Completes(r) =>
                  /\ req'[r].err = readFile(fs, req[r].filePath).err
                  /\ req'[r].content = readFile(fs, req[r].filePath).content
                  /\ req'[r].res = AloneResponse(r, fs)]_vars

C10_Witness ==
    \E r, q \in Requests :
        /\ Closed(r) /\ Closed(q) /\ req[r].url = req[q].url
        /\ req[r].res.statusCode = 200 /\ req[q].res.statusCode = 404

\* C11: the method plays no part in the response: two requests for the
\* same URL, whatever their methods, read the same file with the same
\* content type, and when their reads gave the same result their responses
\* have the same status, Content-Type and body.
C11_MethodIndependent ==
    \A r, q \in Requests :
        (req[r].state # "idle" /\ req[q].state # "idle"
            /\ req[r].url = req[q].url)
        => /\ req[r].filePath = req[q].filePath
           /\ req[r].contentType = req[q].contentType
           /\ (Closed(r) /\ Closed(q) /\ req[r].err = req[q].err
                  /\ req[r].content = req[q].content)
              => /\ req[r].res.statusCode = req[q].res.statusCode
                 /\ req[r].res.contentType = req[q].res.contentType
                 /\ req[r].res.body = req[q].res.body

C11_Witness ==
    \E r, q \in Requests :
        /\ Closed(r) /\ Closed(q)
        /\ req[r].url = uIndex /\ req[q].url = uIndex
        /\ req[r].method = "GET" /\ req[q].method = "DELETE"
        /\ req[r].res.statusCode = 200
        /\ req[r].res = req[q].res

\* C12: a changePassword(oldPwd, newPwd) that succeeds leaves
\* authenticate(newPwd) true and, for two different valid passwords, a login
\* at the account's email with the old password throwing 'invalid
\* credentials'; with a wrong current password or a new password shorter
\* than 6 characters it throws and the stored credential is as it was.
C12_PasswordChange ==
    [][\A i \in Ids, oldPwd \in Passwords, newPwd \in Passwords :
          ChangePassword(i, oldPwd, newPwd) =>
              /\ (~authenticate(bank, i, oldPwd) \/ Len(newPwd) < 6)
                    => last'.threw
              /\ last'.threw
                    => bank'.accounts[i].passwordHash
                           = bank.accounts[i].passwordHash
              /\ ~last'.threw => authenticate(bank', i, newPwd)
              /\ (~last'.threw /\ oldPwd # newPwd)
                    => LET attempt == login(bank', bank'.accounts[i].email,
                                            oldPwd)
                       IN attempt.threw /\ attempt.error = "invalid credentials"
      ]_vars


\* The demo ran through with Alice at 1300, Bob at 1400, the admin at 0.
DemoOutcome ==
    /\ ~demo.threw
    /\ Len(demo.bank.accounts) = 3
    /\ demo.bank.accounts[1].balance = 1300
    /\ demo.bank.accounts[2].balance = 1400
    /\ demo.bank.accounts[3].balance = 0

\* C13: a deposit(a) that succeeds raises the balance by exactly a and
\* returns the new balance, a withdraw(a) that succeeds lowers it by exactly
\* a and returns the new balance, a transferTo(t, a) that succeeds lowers
\* the source by a and raises the target by a; and the demo ends with Alice
\* at 1300, Bob at 1400 and the admin at 0.
C13_ExactAmounts ==
    [][/\ (last'.op = "deposit" /\ ~last'.threw)
            => /\ bank'.accounts[last'.src].balance
                    = bank.accounts[last'.src].balance + last'.amount
               /\ last'.returned = "number"
               /\ last'.number = bank'.accounts[last'.src].balance
       /\ (last'.op = "withdraw" /\ ~last'.threw)
            => /\ bank'.accounts[last'.src].balance
                    = bank.accounts[last'.src].balance - last'.amount
               /\ last'.returned = "number"
               /\ last'.number = bank'.accounts[last'.src].balance
       /\ (last'.op = "transferTo" /\ ~last'.threw)
            => /\ bank'.accounts[last'.src].balance
                    = bank.accounts[last'.src].balance - last'.amount
               /\ bank'.accounts[last'.dst].balance
                    = bank.accounts[last'.dst].balance + last'.amount
               /\ last'.returned = "true"
       /\ DemoOutcome
      ]_vars

\* A transfer of 2 has arrived in an account that had been paid into.
C13_Witness ==
    /\ last.op = "transferTo" /\ ~last.threw /\ last.amount = 2
    /\ bank.accounts[last.dst].balance = 2
    /\ bank.accounts[last.src].balance = 0


\* C14: a transferTo between two accounts, active or closed, either returns
\* true having moved exactly the amount from the source to the target, or
\* throws leaving both balances as they were; either way the sum of the two
\* balances is the same after the call as before it.
C14_TransferAllOrNothing ==
    [][last'.op = "transferTo" =>
          LET i == last'.src
              j == last'.dst
              a == last'.amount
          IN /\ ~last'.threw
                  => /\ last'.returned = "true"
                     /\ bank'.accounts[i].balance = bank.accounts[i].balance - a
                     /\ bank'.accounts[j].balance = bank.accounts[j].balance + a
             /\ last'.threw
                  => /\ bank'.accounts[i].balance = bank.accounts[i].balance
                     /\ bank'.accounts[j].balance = bank.accounts[j].balance
             /\ bank'.accounts[i].balance + bank'.accounts[j].balance
                  = bank.accounts[i].balance + bank.accounts[j].balance
      ]_vars


\* The emails of the stored accounts, as the email getter gives them.
StoredEmails(b) == {b.accounts[b.store[k]].email : k \in 1..Len(b.store)}

\* No two accounts in the store have the same email.
EmailsDistinct(b) ==
    \A k \in 1..Len(b.store), m \in 1..Len(b.store) :
        k # m => b.accounts[b.store[k]].email # b.accounts[b.store[m]].email

\* C15: after any sequence of registerUser calls no two accounts in the
\* store have the same email (lowercased and trimmed), and a registerUser
\* whose email normalizes to that of a stored account throws and adds
\* nothing to the store.
C15_EmailsUnique ==
    [][last'.op = "registerUser" =>
          /\ EmailsDistinct(bank')
          /\ trim(toLowerCase(last'.email)) \in StoredEmails(bank)
                => last'.threw /\ bank' = bank
      ]_vars


\* C16: the balance of every account is non-negative in every reachable
\* state, whatever deposit, withdraw, transferTo, creditAccount and close
\* calls were made, successful or throwing.
C16_BalanceNonNegative ==
    \A i \in Ids : bank.accounts[i].balance >= 0

\* A withdrawal of more than the balance was refused.
C16_Witness ==
    /\ last.op = "withdraw" /\ last.threw
    /\ last.error = "insufficient funds"
    /\ bank.accounts[last.src].balance < last.amount


\* close() returned only for an active account with balance 0.
ClosesOnlyEmptyActive ==
    (last'.op = "close" /\ ~last'.threw)
        => /\ bank.accounts[last'.src].isActive
           /\ bank.accounts[last'.src].balance = 0
           /\ ~bank'.accounts[last'.src].isActive

\* A closed account has balance 0 and the step leaves it as it is.
ClosedIsFrozen ==
    \A i \in Ids :
        ~bank.accounts[i].isActive
            => /\ bank.accounts[i].balance = 0
               /\ bank'.accounts[i] = bank.accounts[i]

\* deposit, withdraw, transferTo or close called on a closed account throws
\* 'account is not active'.
ClosedRefusesOwnCalls ==
    (/\ last'.op \in {"deposit", "withdraw", "transferTo", "close"}
     /\ ~bank.accounts[last'.src].isActive)
        => last'.threw /\ last'.error = "account is not active"

\* The admin's creditAccount has a closed account as its target.
CreditsClosed ==
    last'.op = "creditAccount" /\ ~bank.accounts[last'.dst].isActive

\* C17 as stated: close() succeeds only on an active account with balance
\* 0; a closed account stays closed with balance 0; every later deposit,
\* withdraw, transferTo or close on it and every admin creditAccount
\* targeting it throws 'account is not active' without changing it.
C17_ClosedRefusesAll ==
    [][/\ ClosesOnlyEmptyActive
       /\ ClosedIsFrozen
       /\ ClosedRefusesOwnCalls
       /\ CreditsClosed
            => last'.threw /\ last'.error = "account is not active"
      ]_vars

\* C17, amended: as above, but an admin creditAccount targeting a closed
\* account throws 'account is not active' only for an amount > 0; for an
\* amount <= 0 it throws 'amount must be > 0'.  Neither changes the account.
C17_ClosedIsTerminal ==
    [][/\ ClosesOnlyEmptyActive
       /\ ClosedIsFrozen
       /\ ClosedRefusesOwnCalls
       /\ CreditsClosed
            => /\ last'.threw
               /\ last'.error = IF last'.amount <= 0
                                THEN "amount must be > 0"
                                ELSE "account is not active"
      ]_vars

\* The admin's credit of a positive amount to a closed account was refused.
C17_Witness ==
    /\ last.op = "creditAccount" /\ last.amount > 0
    /\ ~bank.accounts[last.dst].isActive
    /\ last.threw /\ last.error = "account is not active"

====
